---- MODULE Spec2Model ----
(***************************************************************************)
(* Model of the binary-cache support of skia-bindings:                     *)
(*   build_support/binary_cache/binaries.rs  (key, download_url,           *)
(*                                            should_export, export,       *)
(*                                            unpack)                      *)
(*   build_support/binary_cache/utils.rs     (download)                    *)
(*                                                                         *)
(* A Rust String is modelled as a sequence of one-character strings, so    *)
(* that sorting, joining and substring replacement are computed character  *)
(* by character.  Option<T> is a sequence of length at most one.           *)
(***************************************************************************)
EXTENDS Integers, Sequences, FiniteSets, TLC

VARIABLES
    cargo_target,           \* cargo::target().to_string() of this build process
    cargo_crt_static,       \* cargo::target_crt_static() of this build process
    key_args,               \* Option: the arguments of the last call of key
    key_ret,                \* Option: the String the last call of key returned
    url_args,               \* Option: the arguments of the last call of download_url
    url_ret,                \* Option: the String the last call of download_url returned
    repo_revision,          \* the checkout: Option of the short hash git resolves
    env_staging_directory,  \* the artifact staging directory variable: Option of a path
    gate_seen,              \* Option: the checkout and variable at the last should_export
    gate_ret,               \* Option: what the last should_export returned (an Option)
    env_https_proxy,        \* the variable https_proxy: Option of its value
    env_HTTPS_PROXY,        \* the variable HTTPS_PROXY: Option of its value
    dl_pc,                  \* where download is: idle, get, match, done
    dl_url,                 \* Option: the url of the current call of download
    dl_route,               \* Option: the proxy the request goes through, None if direct
    requests,               \* the HTTP requests the current call of download has issued
    dl_resp,                \* Option: what call() and the body read gave
    dl_ret,                 \* Option: the io::Result the last download returned
    fs,                     \* the file system: path |-> directory or file with its bytes
    up_pc,                  \* per process, where unpack is: idle, extract, enumerate,
                            \*   rename, done
    up_out,                 \* per process: output_directory of its unpack
    up_archive,             \* per process: the archive stream given to its unpack
    up_todo,                \* per process: the tar entries not extracted yet
    up_paths,               \* per process: the Vec<PathBuf> paths not renamed yet
    up_ret,                 \* per process, Option: how its unpack ended
    ex_pc,                  \* the step export is at, or ended at
    ex_args,                \* Option: config, source_files and target_dir of export
    ex_key,                 \* Option: the key export derived
    ex_todo,                \* the copies export has still to make, in order
    ex_copied,              \* the copies the last export has made, in order
    ex_ret,                 \* Option: how the last export ended
    ex_runs,                \* how many times export was called
    ex_fs0                  \* the file system when the last export was called

key_vars == <<cargo_target, cargo_crt_static, key_args, key_ret>>
url_vars == <<url_args, url_ret>>
gate_vars == <<repo_revision, env_staging_directory, gate_seen, gate_ret>>
download_vars == <<env_https_proxy, env_HTTPS_PROXY, dl_pc, dl_url, dl_route, requests,
                   dl_resp, dl_ret>>
unpack_vars == <<up_pc, up_out, up_archive, up_todo, up_paths, up_ret>>
export_vars == <<ex_pc, ex_args, ex_key, ex_todo, ex_copied, ex_ret, ex_runs, ex_fs0>>
cache_vars == <<fs, unpack_vars, export_vars>>
vars == <<key_vars, url_vars, gate_vars, download_vars, cache_vars>>

None == <<>>
Some(x) == <<x>>
Unwrap(o) == o[1]

(***************************************************************************)
(* Strings                                                                 *)
(***************************************************************************)

\* The characters the model uses, in increasing byte order (ASCII).
AsciiOrder ==
    <<"(", ")", "+", "-", ".", "/",
      "0", "1", "2", "3", "4", "5", "6", "7", "8", "9", ":",
      "<", ">", "A", "B", "Z", "[", "]", "_",
      "a", "b", "c", "d", "e", "f", "g", "h", "i", "j", "k", "l", "m",
      "n", "o", "p", "q", "r", "s", "t", "u", "v", "w", "x", "y", "z",
      "{", "}">>

Chars == {AsciiOrder[i] : i \in DOMAIN AsciiOrder}

\* Byte order of a character: u8::cmp, which str::cmp applies bytewise.
OrdTable == [c \in Chars |-> CHOOSE i \in DOMAIN AsciiOrder : AsciiOrder[i] = c]
Ord(c) == OrdTable[c]

CharsOf(s) == {s[i] : i \in DOMAIN s}

\* <str as Ord>::cmp(a, b) == Less: lexicographic on bytes, a proper prefix first.
RECURSIVE StrLess(_, _)
StrLess(a, b) ==
    IF b = <<>> THEN FALSE
    ELSE IF a = <<>> THEN TRUE
    ELSE IF Head(a) = Head(b) THEN StrLess(Tail(a), Tail(b))
    ELSE Ord(Head(a)) < Ord(Head(b))

\* One insertion step of the sort: x goes before the first element greater than it.
RECURSIVE Insert(_, _)
Insert(x, sorted) ==
    IF sorted = <<>> THEN <<x>>
    ELSE IF StrLess(x, Head(sorted)) THEN <<x>> \o sorted
    ELSE <<Head(sorted)>> \o Insert(x, Tail(sorted))

RECURSIVE SortFrom(_, _)
SortFrom(todo, sorted) ==
    IF todo = <<>> THEN sorted
    ELSE SortFrom(Tail(todo), Insert(Head(todo), sorted))

\* A sort that leaves the vector as it is (mutation of sort).
sort_omitted(v) == v

\* Vec<String>::sort(): ascending by str::cmp.
sort(v) == SortFrom(v, <<>>)

RECURSIVE DedupFrom(_, _)
DedupFrom(todo, kept) ==
    IF todo = <<>> THEN kept
    ELSE IF kept # <<>> /\ kept[Len(kept)] = Head(todo)
         THEN DedupFrom(Tail(todo), kept)
         ELSE DedupFrom(Tail(todo), Append(kept, Head(todo)))

\* Vec<String>::dedup(): removes consecutive repeated elements.
dedup(v) == DedupFrom(v, <<>>)

RECURSIVE JoinFrom(_, _, _)
JoinFrom(todo, sep, acc) ==
    IF todo = <<>> THEN acc
    ELSE JoinFrom(Tail(todo), sep, acc \o sep \o Head(todo))

\* [String]::join(sep): the elements with sep between each two.
join(v, sep) == IF v = <<>> THEN <<>> ELSE JoinFrom(Tail(v), sep, Head(v))

(***************************************************************************)
(* binaries.rs: key                                                        *)
(***************************************************************************)

\* Longest feature list passed to key.
MaxFeatures == 3

Hash1 == <<"a", "1", "b", "2", "c", "3", "d", "4">>
Hash2 == <<"0", "f", "9", "e", "8", "d", "7", "c">>
Hashes == {Hash1, Hash2}

TargetMsvc == <<"x", "8", "6", "_", "6", "4", "-", "p", "c", "-", "w", "i", "n", "d", "o", "w", "s", "-", "m", "s", "v", "c">>
TargetDarwin == <<"a", "a", "r", "c", "h", "6", "4", "-", "a", "p", "p", "l", "e", "-", "d", "a", "r", "w", "i", "n">>
Targets == {TargetMsvc, TargetDarwin}

FeatGl == <<"g", "l">>
FeatVulkan == <<"v", "u", "l", "k", "a", "n">>
FeatDebug == <<"d", "e", "b", "u", "g">>
FeatStatic == <<"s", "t", "a", "t", "i", "c">>
FeatParen == <<"g", "l", "(", "x", ")">>
FeatureNames == {FeatGl, FeatVulkan, FeatDebug, FeatStatic, FeatParen}

\* Every &[impl AsRef<str>] of at most MaxFeatures names: any order, repeats allowed.
FeatureLists == UNION {[1..n -> FeatureNames] : n \in 0..MaxFeatures}

\* group with an enclosing syntax (mutation of group).
group_bracketed(str) == <<"[">> \o str \o <<"]">>

\* fn group inside key: "no grouping syntax ATM".
group(str) == str

\* components.join("-") in key.
join_components(components) == join(components, <<"-">>)

\* key with the debug token pushed before the static token (mutation of key).
key_debug_first(repository_short_hash, target, crt_static, features, skia_debug) ==
    LET c1 == <<repository_short_hash>>
        c2 == Append(c1, group(target))
        c3 == IF features # <<>>
              THEN Append(c2, group(join(dedup(sort(features)), <<"-">>)))
              ELSE c2
        c4 == IF skia_debug THEN Append(c3, <<"d", "e", "b", "u", "g">>) ELSE c3
        c5 == IF crt_static THEN Append(c4, <<"s", "t", "a", "t", "i", "c">>) ELSE c4
    IN  join_components(c5)

\* key with the feature component pushed even for an empty list (mutation of key).
key_always_features(repository_short_hash, target, crt_static, features, skia_debug) ==
    LET c1 == <<repository_short_hash>>
        c2 == Append(c1, group(target))
        c3 == Append(c2, group(join(dedup(sort(features)), <<"-">>)))
        c4 == IF crt_static THEN Append(c3, <<"s", "t", "a", "t", "i", "c">>) ELSE c3
        c5 == IF skia_debug THEN Append(c4, <<"d", "e", "b", "u", "g">>) ELSE c4
    IN  join_components(c5)

\* The body of key, with the two values it reads from cargo as parameters:
\* target is cargo::target().to_string(), crt_static is cargo::target_crt_static().
key_of(repository_short_hash, target, crt_static, features, skia_debug) ==
    LET c1 == <<repository_short_hash>>
        c2 == Append(c1, group(target))
        c3 == IF features # <<>>
              THEN Append(c2, group(join(dedup(sort(features)), <<"-">>)))
              ELSE c2
        c4 == IF crt_static THEN Append(c3, <<"s", "t", "a", "t", "i", "c">>) ELSE c3
        c5 == IF skia_debug THEN Append(c4, <<"d", "e", "b", "u", "g">>) ELSE c4
    IN  join_components(c5)

\* pub fn key(repository_short_hash, features, skia_debug) -> String
key(repository_short_hash, features, skia_debug) ==
    key_of(repository_short_hash, cargo_target, cargo_crt_static, features, skia_debug)

KeyInit ==
    /\ cargo_target \in Targets
    /\ cargo_crt_static \in BOOLEAN
    /\ key_args = None
    /\ key_ret = None

\* One call of key by the build script.
KeyCall ==
    /\ key_args = None
    /\ \E h \in Hashes, f \in FeatureLists, d \in BOOLEAN :
        /\ key_args' = Some([features |-> f, repository_short_hash |-> h, skia_debug |-> d])
        /\ key_ret' = Some(key(h, f, d))
    /\ UNCHANGED <<cargo_target, cargo_crt_static>>
    /\ UNCHANGED <<url_vars, gate_vars, download_vars, cache_vars>>

\* The caller has used the key; key may be called again.
KeyReturn ==
    /\ key_args # None
    /\ key_args' = None
    /\ key_ret' = None
    /\ UNCHANGED <<cargo_target, cargo_crt_static>>
    /\ UNCHANGED <<url_vars, gate_vars, download_vars, cache_vars>>

(***************************************************************************)
(* binaries.rs: download_url                                               *)
(***************************************************************************)

\* Most pieces a url template is put together from.
MaxPieces == 3

TAG_PLACEHOLDER == <<"{", "t", "a", "g", "}">>
KEY_PLACEHOLDER == <<"{", "k", "e", "y", "}">>

ScenarioTemplate == <<"h", "t", "t", "p", "s", ":", "/", "/", "e", "x", "a", "m", "p", "l", "e", "/", "{", "t", "a", "g", "}", "/", "{", "k", "e", "y", "}", ".", "t", "a", "r", ".", "g", "z">>
ScenarioTag == <<"0", ".", "9", ".", "1">>
ScenarioUrlKey == <<"a", "b", "c", "-", "s", "t", "a", "t", "i", "c">>
ScenarioUrl == <<"h", "t", "t", "p", "s", ":", "/", "/", "e", "x", "a", "m", "p", "l", "e", "/", "0", ".", "9", ".", "1", "/", "a", "b", "c", "-", "s", "t", "a", "t", "i", "c", ".", "t", "a", "r", ".", "g", "z">>

\* Fragments of templates: the placeholders, text, and broken placeholders.
Pieces == {TAG_PLACEHOLDER, KEY_PLACEHOLDER, <<"/">>, <<"{">>, <<"}">>,
           <<"{", "k", "e">>, <<"y", "}">>}

RECURSIVE Flatten(_)
Flatten(ps) == IF ps = <<>> THEN <<>> ELSE Head(ps) \o Flatten(Tail(ps))

Templates ==
    {Flatten(ps) : ps \in UNION {[1..n -> Pieces] : n \in 0..MaxPieces}}
        \cup {ScenarioTemplate}

Tags == {ScenarioTag, <<>>, KEY_PLACEHOLDER, <<"y", "}">>}
UrlKeys == {ScenarioUrlKey, TAG_PLACEHOLDER, <<"k">>}

StartsWith(s, p) == Len(s) >= Len(p) /\ SubSeq(s, 1, Len(p)) = p

\* str::replace that stops after the first match (mutation of replace: replacen(.., 1)).
RECURSIVE replace_first(_, _, _)
replace_first(s, from, to) ==
    IF Len(s) < Len(from) THEN s
    ELSE IF StartsWith(s, from)
         THEN to \o SubSeq(s, Len(from) + 1, Len(s))
         ELSE <<Head(s)>> \o replace_first(Tail(s), from, to)

\* str::replace(from, to) for a non-empty pattern: the non-overlapping matches of
\* from, found left to right, are each replaced by to; the rest is copied.
RECURSIVE replace(_, _, _)
replace(s, from, to) ==
    IF Len(s) < Len(from) THEN s
    ELSE IF StartsWith(s, from)
         THEN to \o replace(SubSeq(s, Len(from) + 1, Len(s)), from, to)
         ELSE <<Head(s)>> \o replace(Tail(s), from, to)

\* pub fn download_url(url_template, tag, key) -> String
download_url(url_template, tag, key_value) ==
    replace(replace(url_template, TAG_PLACEHOLDER, tag), KEY_PLACEHOLDER, key_value)

UrlInit ==
    /\ url_args = None
    /\ url_ret = None

\* One call of download_url.
UrlCall ==
    /\ url_args = None
    /\ \E t \in Templates, g \in Tags, k \in UrlKeys :
        /\ url_args' = Some([key |-> k, tag |-> g, url_template |-> t])
        /\ url_ret' = Some(download_url(t, g, k))
    /\ UNCHANGED <<key_vars, gate_vars, download_vars, cache_vars>>

\* The caller has used the url; download_url may be called again.
UrlReturn ==
    /\ url_args # None
    /\ url_args' = None
    /\ url_ret' = None
    /\ UNCHANGED <<key_vars, gate_vars, download_vars, cache_vars>>

(***************************************************************************)
(* binaries.rs: should_export                                              *)
(***************************************************************************)

\* What git::half_hash() can find: no resolvable revision, or its short hash.
Revisions == {None} \cup {Some(h) : h \in Hashes \cup {<<"7", "7", "e", "1">>}}

\* What the staging-directory variable can hold: unset, or a directory.
StagingDirectories == {None, Some("/ci/staging"), Some("/tmp/artifacts"), Some("/home/runner/a")}

\* git::half_hash(): the short hash of HEAD, None outside a resolvable checkout.
git_half_hash == repo_revision

\* github_actions::artifact_staging_directory(): the variable's value as a path.
artifact_staging_directory == env_staging_directory

\* should_export returning the staging directory without asking git (mutation).
should_export_no_git == artifact_staging_directory

\* pub fn should_export() -> Option<PathBuf>
should_export ==
    IF git_half_hash = None THEN None
    ELSE artifact_staging_directory

GateInit ==
    /\ repo_revision \in Revisions
    /\ env_staging_directory \in StagingDirectories
    /\ gate_seen = None
    /\ gate_ret = None

\* One call of should_export; gate_seen records what the call could see.
ShouldExport ==
    /\ gate_seen' = Some([revision |-> repo_revision, staging |-> env_staging_directory])
    /\ gate_ret' = Some(should_export)
    /\ UNCHANGED <<repo_revision, env_staging_directory>>
    /\ UNCHANGED <<key_vars, url_vars, download_vars, cache_vars>>

\* Between two builds the checkout moves to another revision, or stops being one.
RepositoryChange ==
    /\ \E r \in Revisions \ {repo_revision} : repo_revision' = r
    /\ UNCHANGED <<env_staging_directory, gate_seen, gate_ret>>
    /\ UNCHANGED <<key_vars, url_vars, download_vars, cache_vars>>

\* Between two builds the staging variable is set or unset.
StagingChange ==
    /\ \E d \in StagingDirectories \ {env_staging_directory} : env_staging_directory' = d
    /\ UNCHANGED <<repo_revision, gate_seen, gate_ret>>
    /\ UNCHANGED <<key_vars, url_vars, download_vars, cache_vars>>

(***************************************************************************)
(* utils.rs: download                                                      *)
(***************************************************************************)

\* A value of an environment variable that is not valid Unicode.
NotUnicode == [text |-> "", unicode |-> FALSE]
EnvText(t) == [text |-> t, unicode |-> TRUE]

\* Proxy texts that ureq's Proxy::new accepts, and texts it rejects.
ValidProxyTexts == {"http://proxy.corp:8080", "socks5://10.0.0.7:1080"}
MalformedProxyTexts == {"ftp://proxy.corp", "http://:"}

\* What a proxy variable can hold: unset, set to text, set to non-Unicode bytes.
EnvValues ==
    {None, Some(NotUnicode)}
        \cup {Some(EnvText(t)) : t \in ValidProxyTexts \cup MalformedProxyTexts}

Urls == {"https://example/0.9.1/abc-static.tar.gz", "https://example/0.9.1/abc.tar.gz"}
Bodies == {"tar-gz-bytes-1", "tar-gz-bytes-2"}

\* What call() and the read of the body can give: a success whose body is read
\* to its end, a success whose body stream fails, and call() errors (a status
\* outside 2xx, a transport failure), each with its message.
Responses ==
    {[body |-> b, error |-> "", ok |-> TRUE, read |-> None] : b \in Bodies}
        \cup {[body |-> b, error |-> "", ok |-> TRUE, read |-> Some("connection reset")] :
                 b \in Bodies}
        \cup {[body |-> "", error |-> e, ok |-> FALSE, read |-> None] :
                 e \in {"status code 404", "status code 500", "Connection Failed"}}

\* env::var(name): Ok(text) when the variable is set to valid Unicode, else Err.
env_var(value) ==
    IF value # None /\ Unwrap(value).unicode THEN Some(Unwrap(value).text) ELSE None

\* The selection with the uppercase name asked first (mutation of proxy_var).
proxy_var_upper_first ==
    IF env_var(env_HTTPS_PROXY) # None THEN env_var(env_HTTPS_PROXY)
    ELSE env_var(env_https_proxy)

\* env::var("https_proxy").or_else(|_| env::var("HTTPS_PROXY"))
proxy_var ==
    IF env_var(env_https_proxy) # None THEN env_var(env_https_proxy)
    ELSE env_var(env_HTTPS_PROXY)

\* Proxy::new(proxy): Ok(proxy) for a well-formed proxy address, else Err.
Proxy_new(proxy) == IF proxy \in ValidProxyTexts THEN Some(proxy) ELSE None

\* The route with the variable's text used without parsing it (mutation of route).
route_unparsed(selected) == selected

\* The connection the GET is made over: Some(proxy) through an agent built with
\* that proxy, None for ureq::get, a direct connection.
route(selected) ==
    IF selected # None
    THEN IF Proxy_new(Unwrap(selected)) # None
         THEN Proxy_new(Unwrap(selected))
         ELSE None
    ELSE None

Ok(data) == [data |-> data, kind |-> "", message |-> "", ok |-> TRUE]
Err(kind, message) == [data |-> "", kind |-> kind, message |-> message, ok |-> FALSE]

\* match resp { Ok(resp) => read_to_end(..)?; Ok(data), Err(error) => Err(..) }
download_result(resp) ==
    IF resp.ok
    THEN IF resp.read = None THEN Ok(resp.body)
         ELSE Err("io", Unwrap(resp.read))
    ELSE Err("Other", resp.error)

DownloadInit ==
    /\ env_https_proxy \in EnvValues
    /\ env_HTTPS_PROXY \in EnvValues
    /\ dl_pc = "idle"
    /\ dl_url = None
    /\ dl_route = None
    /\ requests = <<>>
    /\ dl_resp = None
    /\ dl_ret = None

\* download(url) is entered: the proxy variable is read and the route chosen.
DownloadBegin ==
    /\ dl_pc \in {"idle", "done"}
    /\ \E u \in Urls : dl_url' = Some(u)
    /\ dl_route' = route(proxy_var)
    /\ requests' = <<>>
    /\ dl_resp' = None
    /\ dl_ret' = None
    /\ dl_pc' = "get"
    /\ UNCHANGED <<env_https_proxy, env_HTTPS_PROXY>>
    /\ UNCHANGED <<key_vars, url_vars, gate_vars, cache_vars>>

\* agent.get(url).call() or ureq::get(url).call(): the GET goes out and is answered.
DownloadCall ==
    /\ dl_pc = "get"
    /\ requests' = Append(requests, [method |-> "GET", url |-> Unwrap(dl_url), via |-> dl_route])
    /\ \E r \in Responses : dl_resp' = Some(r)
    /\ dl_pc' = "match"
    /\ UNCHANGED <<env_https_proxy, env_HTTPS_PROXY, dl_url, dl_route, dl_ret>>
    /\ UNCHANGED <<key_vars, url_vars, gate_vars, cache_vars>>

\* A download that calls again after an error (mutation of DownloadMatch).
DownloadMatchRetry ==
    /\ dl_pc = "match"
    /\ IF Unwrap(dl_resp).ok
       THEN /\ dl_ret' = Some(download_result(Unwrap(dl_resp)))
            /\ dl_pc' = "done"
            /\ UNCHANGED <<requests, dl_resp>>
       ELSE /\ requests' = Append(requests, requests[Len(requests)])
            /\ \E r \in Responses : dl_resp' = Some(r) /\ dl_ret' = Some(download_result(r))
            /\ dl_pc' = "done"
    /\ UNCHANGED <<env_https_proxy, env_HTTPS_PROXY, dl_url, dl_route>>
    /\ UNCHANGED <<key_vars, url_vars, gate_vars, cache_vars>>

\* The match on the response: the body is read and returned, or the error is.
DownloadMatch ==
    /\ dl_pc = "match"
    /\ dl_ret' = Some(download_result(Unwrap(dl_resp)))
    /\ dl_pc' = "done"
    /\ UNCHANGED <<env_https_proxy, env_HTTPS_PROXY, dl_url, dl_route, requests, dl_resp>>
    /\ UNCHANGED <<key_vars, url_vars, gate_vars, cache_vars>>

(***************************************************************************)
(* Specifications: one per part of the build script                        *)
(***************************************************************************)

(***************************************************************************)
(* The file system that unpack and export act on                           *)
(***************************************************************************)

\* A path is the sequence of its components; fs maps each existing path to
\* its node. The root, the empty path, always exists and is a directory.
DirNode == [data |-> <<>>, kind |-> "dir"]
FileNode(data) == [data |-> data, kind |-> "file"]

Exists(f, p) == p \in DOMAIN f
IsDir(f, p) == p = <<>> \/ (p \in DOMAIN f /\ f[p].kind = "dir")
IsFile(f, p) == p \in DOMAIN f /\ f[p].kind = "file"

\* Path::parent, Path::file_name, Path::join
Parent(p) == SubSeq(p, 1, Len(p) - 1)
file_name(p) == p[Len(p)]
join_path(p, name) == Append(p, name)

\* q is strictly below p.
IsUnder(q, p) == Len(q) > Len(p) /\ SubSeq(q, 1, Len(p)) = p
Children(f, p) == {q \in DOMAIN f : Len(q) = Len(p) + 1 /\ IsUnder(q, p)}

\* io::Result of a file system call, with the file system it leaves.
FsOk(f) == [err |-> None, fs |-> f]
FsErr(message, f) == [err |-> Some(message), fs |-> f]

Put(f, p, node) == [q \in DOMAIN f \cup {p} |-> IF q = p THEN node ELSE f[q]]

\* fs::create_dir_all(p): p and every missing ancestor become directories; no
\* error when p is a directory already.
create_dir_all(f, p) ==
    LET prefixes == {SubSeq(p, 1, i) : i \in 1..Len(p)}
    IN  IF \E q \in prefixes : IsFile(f, q)
        THEN FsErr("NotADirectory", f)
        ELSE FsOk([q \in DOMAIN f \cup prefixes |->
                      IF q \in DOMAIN f THEN f[q] ELSE DirNode])

\* A create that opens an existing file without truncating it (mutation of
\* File_create).
File_create_keep(f, p) ==
    IF ~IsDir(f, Parent(p)) THEN FsErr("NotFound", f)
    ELSE IF IsDir(f, p) THEN FsErr("IsADirectory", f)
    ELSE IF IsFile(f, p) THEN FsOk(f)
    ELSE FsOk(Put(f, p, FileNode(<<>>)))

\* fs::File::create(p): the file is created, or truncated if it exists.
File_create(f, p) ==
    IF ~IsDir(f, Parent(p)) THEN FsErr("NotFound", f)
    ELSE IF IsDir(f, p) THEN FsErr("IsADirectory", f)
    ELSE FsOk(Put(f, p, FileNode(<<>>)))

\* file.write_all(bytes) on the handle File::create gave: the bytes follow what
\* the file holds.
write_all(f, p, bytes) == FsOk(Put(f, p, FileNode(f[p].data \o bytes)))

\* fs::copy(from, to): to gets the bytes of from, replacing what it held.
fs_copy(f, from, to) ==
    IF ~IsFile(f, from) THEN FsErr("NotFound", f)
    ELSE IF ~IsDir(f, Parent(to)) THEN FsErr("NotFound", f)
    ELSE IF IsDir(f, to) THEN FsErr("IsADirectory", f)
    ELSE FsOk(Put(f, to, FileNode(f[from].data)))

\* The paths of f with the tree at from moved to to.
MoveTree(f, from, to) ==
    LET stay == {q \in DOMAIN f : q # from /\ ~IsUnder(q, from) /\ q # to}
        Moved(q) == to \o SubSeq(q, Len(from) + 1, Len(q))
        moving == {q \in DOMAIN f : q = from \/ IsUnder(q, from)}
        Origin(r) == CHOOSE q \in moving : Moved(q) = r
    IN  [r \in stay \cup {Moved(q) : q \in moving} |->
            IF r \in stay THEN f[r] ELSE f[Origin(r)]]

\* fs::rename(from, to), as rename(2): a file replaces a file, a directory
\* replaces an empty directory, and from is gone afterwards.
fs_rename(f, from, to) ==
    IF ~Exists(f, from) THEN FsErr("NotFound", f)
    ELSE IF ~IsDir(f, Parent(to)) THEN FsErr("NotFound", f)
    ELSE IF from = to THEN FsOk(f)
    ELSE IF IsUnder(to, from) THEN FsErr("InvalidInput", f)
    ELSE IF IsFile(f, from) /\ IsDir(f, to) THEN FsErr("IsADirectory", f)
    ELSE IF IsDir(f, from) /\ IsFile(f, to) THEN FsErr("NotADirectory", f)
    ELSE IF IsDir(f, from) /\ IsDir(f, to) /\ Children(f, to) # {}
         THEN FsErr("DirectoryNotEmpty", f)
    ELSE FsOk(MoveTree(f, from, to))

\* How a call ended: it returned Ok(()), it returned Err(io::Error), or it
\* panicked.
IoOk == [how |-> "return", message |-> "", ok |-> TRUE]
IoErr(message) == [how |-> "return", message |-> message, ok |-> FALSE]
Panic(message) == [how |-> "panic", message |-> message, ok |-> FALSE]

\* The parts a specification leaves alone stay in one fixed state.
KeyOff ==
    /\ cargo_target = TargetMsvc
    /\ cargo_crt_static = FALSE
    /\ key_args = None
    /\ key_ret = None

GateOff ==
    /\ repo_revision = None
    /\ env_staging_directory = None
    /\ gate_seen = None
    /\ gate_ret = None

DownloadOff ==
    /\ env_https_proxy = None
    /\ env_HTTPS_PROXY = None
    /\ dl_pc = "idle"
    /\ dl_url = None
    /\ dl_route = None
    /\ requests = <<>>
    /\ dl_resp = None
    /\ dl_ret = None


(***************************************************************************)
(* binaries.rs: unpack                                                     *)
(***************************************************************************)

\* pub const ARCHIVE_NAME: &str = "skia-binaries";
ARCHIVE_NAME == "skia-binaries"

Procs == {"p1", "p2"}

\* The output directory of each build process when every process has its own,
\* and the directory two processes share.
OwnOutput == ("p1" :> <<"out1">>) @@ ("p2" :> <<"out2">>)
SharedOutput == <<"out">>

TarDir(path) == [data |-> <<>>, kind |-> "dir", path |-> path]
TarFile(path, data) == [data |-> data, kind |-> "file", path |-> path]

\* Names of files an archive holds below its root directory.
ChildNames == {"a.lib", "tag.txt", ARCHIVE_NAME}

\* The entries of a tar stream made from a directory root: the directory, its
\* files (each holding who made it and its name), and with nested a
\* subdirectory include holding x.h.
RECURSIVE FileEntries(_, _, _)
FileEntries(root, names, maker) ==
    IF names = {} THEN <<>>
    ELSE LET n == CHOOSE x \in names : TRUE
         IN  <<TarFile(<<root, n>>, <<maker, n>>)>>
                 \o FileEntries(root, names \ {n}, maker)

Entries(root, names, nested, maker) ==
    <<TarDir(<<root>>)>>
        \o FileEntries(root, names, maker)
        \o (IF nested
            THEN <<TarDir(<<root, "include">>),
                   TarFile(<<root, "include", "x.h">>, <<maker, "x.h">>)>>
            ELSE <<>>)

\* An archive stream: its tar entries, and the entry at which decoding the
\* stream fails (0: the stream is sound; 1: it is not gzip at all).
Archive(entries, fail_at) == [entries |-> entries, fail_at |-> fail_at]

\* The sound archives with the expected root and plain files.
SoundArchivesOf(maker) ==
    {Archive(Entries(ARCHIVE_NAME, names, FALSE, maker), 0) :
        names \in SUBSET (ChildNames \ {ARCHIVE_NAME})}

ArchivesOf(maker) ==
    {Archive(Entries(root, names, nested, maker), fail_at) :
        root \in {ARCHIVE_NAME, "other"}, names \in SUBSET ChildNames,
        nested \in BOOLEAN, fail_at \in {0, 1, 2}}
        \cup {Archive(<<>>, 0)}

\* What the output directory holds before unpack: it does not exist; it is
\* empty; it holds a.lib of an earlier build; it holds a directory named a.lib;
\* it holds the ARCHIVE_NAME directory of an earlier unpack with a file in it.
OutputStates(out) ==
    {<<>>,
     (out :> DirNode),
     (out :> DirNode) @@ (join_path(out, "a.lib") :> FileNode(<<"old", "a.lib">>)),
     (out :> DirNode) @@ (join_path(out, "a.lib") :> DirNode),
     (out :> DirNode) @@ (join_path(out, ARCHIVE_NAME) :> DirNode)
         @@ (join_path(join_path(out, ARCHIVE_NAME), "old.txt")
                 :> FileNode(<<"old", "old.txt">>))}

\* unpack_in that extracts below one directory all processes share (mutation
\* of unpack_in: a fixed scratch directory instead of dst).
unpack_in_shared(f, dst, entry) ==
    IF entry.kind = "dir" THEN create_dir_all(f, SharedOutput \o entry.path)
    ELSE LET made == create_dir_all(f, Parent(SharedOutput \o entry.path))
         IN  IF made.err # None THEN made
             ELSE FsOk(Put(made.fs, SharedOutput \o entry.path, FileNode(entry.data)))

\* Entry::unpack_in(dst) of the tar crate: a directory entry is created with its
\* ancestors; a file entry gets its ancestors created and replaces a file of
\* its name.
unpack_in(f, dst, entry) ==
    IF entry.kind = "dir" THEN create_dir_all(f, dst \o entry.path)
    ELSE LET made == create_dir_all(f, Parent(dst \o entry.path))
         IN  IF made.err # None THEN made
             ELSE IF IsDir(made.fs, dst \o entry.path)
                  THEN FsErr("IsADirectory", made.fs)
                  ELSE FsOk(Put(made.fs, dst \o entry.path, FileNode(entry.data)))

\* The paths of a set in one of the orders read_dir may yield them.
Orders(S) ==
    {v \in [1..Cardinality(S) -> S] : \A i, j \in 1..Cardinality(S) : v[i] = v[j] => i = j}

\* The I/O failures that are put into a call from outside: none when inject is
\* FALSE, so that only the state of the file system makes a call fail.
Injected(inject) == IF inject THEN BOOLEAN ELSE {FALSE}
EnumerateFaults(inject) == IF inject THEN {"none", "open", "entry"} ELSE {"none"}

UnpackOff ==
    /\ up_pc = [p \in Procs |-> "idle"]
    /\ up_out = [p \in Procs |-> <<>>]
    /\ up_archive = [p \in Procs |-> Archive(<<>>, 0)]
    /\ up_todo = [p \in Procs |-> <<>>]
    /\ up_paths = [p \in Procs |-> <<>>]
    /\ up_ret = [p \in Procs |-> None]

\* unpack has ended for p with outcome r.
UnpackEnds(p, r, f) ==
    /\ up_pc' = [up_pc EXCEPT ![p] = "done"]
    /\ up_ret' = [up_ret EXCEPT ![p] = Some(r)]
    /\ fs' = f

\* unpack(archive, output_directory) is entered by p.
UnpackBegin(p, archives, outputs) ==
    /\ up_pc[p] = "idle"
    /\ \E a \in archives, out \in outputs :
        /\ up_archive' = [up_archive EXCEPT ![p] = a]
        /\ up_out' = [up_out EXCEPT ![p] = out]
        /\ up_todo' = [up_todo EXCEPT ![p] = a.entries]
    /\ up_pc' = [up_pc EXCEPT ![p] = "open"]
    /\ UNCHANGED <<fs, up_paths, up_ret, export_vars>>
    /\ UNCHANGED <<key_vars, url_vars, gate_vars, download_vars>>

\* tar::Archive::unpack(output_directory) starts: the directory is created if
\* it is missing.
UnpackOpen(p, inject) ==
    /\ up_pc[p] = "open"
    /\ \E fault \in Injected(inject) :
        LET made == IF fault THEN FsErr("PermissionDenied", fs)
                    ELSE IF IsDir(fs, up_out[p]) THEN FsOk(fs)
                    ELSE create_dir_all(fs, up_out[p])
        IN  IF made.err # None
            THEN UnpackEnds(p, IoErr(Unwrap(made.err)), made.fs)
            ELSE /\ fs' = made.fs
                 /\ up_pc' = [up_pc EXCEPT ![p] =
                                 IF up_todo[p] = <<>> THEN "enumerate" ELSE "extract"]
                 /\ UNCHANGED up_ret
    /\ UNCHANGED <<up_out, up_archive, up_todo, up_paths, export_vars>>
    /\ UNCHANGED <<key_vars, url_vars, gate_vars, download_vars>>

\* The next entry of the stream is decoded and extracted below output_directory.
UnpackExtract(p, inject) ==
    /\ up_pc[p] = "extract"
    /\ LET entry == Head(up_todo[p])
           index == Len(up_archive[p].entries) - Len(up_todo[p]) + 1
       IN  \E fault \in Injected(inject) :
            LET got == IF up_archive[p].fail_at = index THEN FsErr("InvalidData", fs)
                       ELSE IF fault THEN FsErr("PermissionDenied", fs)
                       ELSE unpack_in(fs, up_out[p], entry)
            IN  IF got.err # None
                THEN /\ UnpackEnds(p, IoErr(Unwrap(got.err)), got.fs)
                     /\ UNCHANGED up_todo
                ELSE /\ fs' = got.fs
                     /\ up_todo' = [up_todo EXCEPT ![p] = Tail(up_todo[p])]
                     /\ up_pc' = [up_pc EXCEPT ![p] =
                                     IF Tail(up_todo[p]) = <<>> THEN "enumerate"
                                     ELSE "extract"]
                     /\ UNCHANGED up_ret
    /\ UNCHANGED <<up_out, up_archive, up_paths, export_vars>>
    /\ UNCHANGED <<key_vars, url_vars, gate_vars, download_vars>>

\* fs::read_dir(binaries_dir)?.map(|e| e.unwrap().path()).collect(): opening the
\* directory may fail, which ? returns; reading an entry may fail, which unwrap
\* turns into a panic; else paths holds the children in the order read.
UnpackEnumerate(p, inject) ==
    /\ up_pc[p] = "enumerate"
    /\ LET binaries_dir == join_path(up_out[p], ARCHIVE_NAME)
       IN  \E fault \in EnumerateFaults(inject) :
            IF ~IsDir(fs, binaries_dir)
            THEN /\ UnpackEnds(p, IoErr("NotFound"), fs)
                 /\ UNCHANGED up_paths
            ELSE IF fault = "open"
            THEN /\ UnpackEnds(p, IoErr("PermissionDenied"), fs)
                 /\ UNCHANGED up_paths
            ELSE IF fault = "entry" /\ Children(fs, binaries_dir) # {}
            THEN /\ UnpackEnds(p, Panic("called Result::unwrap() on an Err value"), fs)
                 /\ UNCHANGED up_paths
            ELSE /\ \E v \in Orders(Children(fs, binaries_dir)) :
                        up_paths' = [up_paths EXCEPT ![p] = v]
                 /\ up_pc' = [up_pc EXCEPT ![p] = "rename"]
                 /\ UNCHANGED <<fs, up_ret>>
    /\ UNCHANGED <<up_out, up_archive, up_todo, export_vars>>
    /\ UNCHANGED <<key_vars, url_vars, gate_vars, download_vars>>

\* An unpack that goes on with the next path after a rename failed (mutation
\* of UnpackRename).
UnpackRenameSkipping(p, inject) ==
    /\ up_pc[p] = "rename"
    /\ up_paths[p] # <<>>
    /\ LET path == Head(up_paths[p])
           target_path == join_path(up_out[p], file_name(path))
       IN  \E fault \in Injected(inject) :
            LET moved == IF fault THEN FsErr("PermissionDenied", fs)
                         ELSE fs_rename(fs, path, target_path)
            IN  /\ fs' = moved.fs
                /\ up_paths' = [up_paths EXCEPT ![p] = Tail(up_paths[p])]
                /\ UNCHANGED <<up_pc, up_ret>>
    /\ UNCHANGED <<up_out, up_archive, up_todo, export_vars>>
    /\ UNCHANGED <<key_vars, url_vars, gate_vars, download_vars>>

\* One turn of the loop over paths: fs::rename(path, output_directory.join(name))?
UnpackRename(p, inject) ==
    /\ up_pc[p] = "rename"
    /\ up_paths[p] # <<>>
    /\ LET path == Head(up_paths[p])
           target_path == join_path(up_out[p], file_name(path))
       IN  \E fault \in Injected(inject) :
            LET moved == IF fault THEN FsErr("PermissionDenied", fs)
                         ELSE fs_rename(fs, path, target_path)
            IN  IF moved.err # None
                THEN /\ UnpackEnds(p, IoErr(Unwrap(moved.err)), moved.fs)
                     /\ UNCHANGED up_paths
                ELSE /\ fs' = moved.fs
                     /\ up_paths' = [up_paths EXCEPT ![p] = Tail(up_paths[p])]
                     /\ UNCHANGED <<up_pc, up_ret>>
    /\ UNCHANGED <<up_out, up_archive, up_todo, export_vars>>
    /\ UNCHANGED <<key_vars, url_vars, gate_vars, download_vars>>

\* The loop is over: Ok(())
UnpackReturn(p) ==
    /\ up_pc[p] = "rename"
    /\ up_paths[p] = <<>>
    /\ UnpackEnds(p, IoOk, fs)
    /\ UNCHANGED <<up_out, up_archive, up_todo, up_paths, export_vars>>
    /\ UNCHANGED <<key_vars, url_vars, gate_vars, download_vars>>

(***************************************************************************)
(* binaries.rs: export, prepare_export_directory                           *)
(***************************************************************************)

\* cargo::package_version(): the version of the package being built.
package_version == <<"0", ".", "9", ".", "1">>

\* Target::library_to_filename(lib): <name>.lib for an msvc target, lib<name>.a
\* for the others.
MsvcFilename == [bindings |-> "bindings.lib", skia |-> "skia.lib",
                 skshaper |-> "skshaper.lib"]
UnixFilename == [bindings |-> "libbindings.a", skia |-> "libskia.a",
                 skshaper |-> "libskshaper.a"]
library_to_filename(target, lib) ==
    IF target = TargetMsvc THEN MsvcFilename[lib] ELSE UnixFilename[lib]

\* BinariesConfiguration::key(half_hash): the key of section 4.1 for the
\* features and the debug flag of the configuration.
config_key(config, half_hash) == key(half_hash, config.features, config.skia_debug)

\* A directory named otherwise than the archive (mutation of binaries).
binaries_renamed(artifacts) == join_path(artifacts, "skia-bindings")

\* let binaries = artifacts.join("skia-binaries");
binaries(artifacts) == join_path(artifacts, "skia-binaries")

\* The configurations export is called with.
Configuration(debug, ninja, other, additional) ==
    [additional_files |-> additional,
     features |-> <<FeatGl>>,
     ninja_built_libraries |-> ninja,
     other_built_libraries |-> other,
     output_directory |-> <<"build">>,
     skia_debug |-> debug]

Configurations ==
    {Configuration(FALSE, <<"skia">>, <<"bindings">>, <<"icudtl.dat">>),
     Configuration(TRUE, <<"skia", "skshaper">>, <<>>, <<"icudtl.dat">>)}

\* source_files: pairs (src, dst); the second list has a file whose
\* destination is named like a metadata file.
SourceFileLists ==
    {<< <<(<<"src", "bindings.rs">>), "bindings.rs">> >>,
     << <<(<<"src", "bindings.rs">>), "bindings.rs">>,
        <<(<<"src", "key.txt">>), "key.txt">> >>}

TargetDirs == {<<"staging">>}

\* What a finished build left on disk, and what the staging directory held
\* before export.
BuildTree ==
    (<<"build">> :> DirNode)
        @@ (<<"build", "skia.lib">> :> FileNode(<<"build", "skia.lib">>))
        @@ (<<"build", "skshaper.lib">> :> FileNode(<<"build", "skshaper.lib">>))
        @@ (<<"build", "bindings.lib">> :> FileNode(<<"build", "bindings.lib">>))
        @@ (<<"build", "icudtl.dat">> :> FileNode(<<"build", "icudtl.dat">>))
        @@ (<<"src">> :> DirNode)
        @@ (<<"src", "bindings.rs">> :> FileNode(<<"src", "bindings.rs">>))
        @@ (<<"src", "key.txt">> :> FileNode(<<"src", "key.txt">>))

Without(f, p) == [q \in DOMAIN f \ {p} |-> f[q]]

ExportFileSystems ==
    {BuildTree,
     BuildTree @@ (<<"staging">> :> DirNode),
     BuildTree @@ (<<"staging">> :> DirNode)
         @@ (<<"staging", "skia-binaries">> :> DirNode)
         @@ (<<"staging", "skia-binaries", "tag.txt">> :> FileNode(<<"0", ".", "8", ".", "0", "-", "old">>))
         @@ (<<"staging", "skia-binaries", "key.txt">> :> FileNode(<<"o", "l", "d">>)),
     BuildTree @@ (<<"staging">> :> DirNode)
         @@ (<<"staging", "skia-binaries">> :> DirNode)
         @@ (<<"staging", "skia-binaries", "tag.txt">> :> DirNode),
     BuildTree @@ (<<"staging">> :> FileNode(<<"staging">>)),
     Without(BuildTree, <<"build", "icudtl.dat">>) @@ (<<"staging">> :> DirNode)}

\* The copies of each loop of export, in the order of the loop: pairs of the
\* path read and the path written.
SourceCopies(args) ==
    [i \in DOMAIN args.source_files |->
        <<args.source_files[i][1],
          join_path(binaries(args.target_dir), args.source_files[i][2])>>]

LibraryCopies(args, libs) ==
    [i \in DOMAIN libs |->
        LET filename == library_to_filename(cargo_target, libs[i])
        IN  <<join_path(args.config.output_directory, filename),
              join_path(binaries(args.target_dir), filename)>>]

AdditionalCopies(args) ==
    [i \in DOMAIN args.config.additional_files |->
        <<join_path(args.config.output_directory, args.config.additional_files[i]),
          join_path(binaries(args.target_dir), args.config.additional_files[i])>>]

ExportOff ==
    /\ ex_pc = "idle"
    /\ ex_args = None
    /\ ex_key = None
    /\ ex_todo = <<>>
    /\ ex_copied = <<>>
    /\ ex_ret = None
    /\ ex_runs = 0
    /\ ex_fs0 = <<>>

ExportArgs == Unwrap(ex_args)
ExportDir == binaries(ExportArgs.target_dir)

\* How many times export is called in a run of the build script.
MaxExports == 2

\* export has ended with outcome r where it stands; ex_pc keeps the step.
ExportEnds(r, f) ==
    /\ ex_ret' = Some(r)
    /\ fs' = f
    /\ UNCHANGED ex_pc

\* An export that prepares the directory before it asks git for the revision
\* (mutation of ExportBegin).
ExportBeginLate(configs, source_lists) ==
    /\ ex_pc = "idle" \/ ex_ret # None
    /\ ex_runs < MaxExports
    /\ \E config \in configs, source_files \in source_lists,
          target_dir \in TargetDirs :
        /\ ex_args' = Some([config |-> config, source_files |-> source_files,
                            target_dir |-> target_dir])
        /\ fs' = create_dir_all(fs, binaries(target_dir)).fs
        /\ IF git_half_hash = None
           THEN /\ ex_ret' = Some(Panic("failed to retrieve the git hash"))
                /\ ex_key' = None
                /\ ex_pc' = "half_hash"
           ELSE /\ ex_ret' = None
                /\ ex_key' = Some(config_key(config, Unwrap(git_half_hash)))
                /\ ex_pc' = "mkdir"
    /\ ex_todo' = <<>>
    /\ ex_copied' = <<>>
    /\ ex_runs' = ex_runs + 1
    /\ ex_fs0' = fs
    /\ UNCHANGED unpack_vars
    /\ UNCHANGED <<key_vars, url_vars, gate_vars, download_vars>>

\* export(config, source_files, target_dir) is entered:
\*   let half_hash = git::half_hash().expect("failed to retrieve the git hash");
\*   let key = config.key(&half_hash);
ExportBegin(configs, source_lists) ==
    /\ ex_pc = "idle" \/ ex_ret # None
    /\ ex_runs < MaxExports
    /\ \E config \in configs, source_files \in source_lists,
          target_dir \in TargetDirs :
        /\ ex_args' = Some([config |-> config, source_files |-> source_files,
                            target_dir |-> target_dir])
        /\ IF git_half_hash = None
           THEN /\ ex_ret' = Some(Panic("failed to retrieve the git hash"))
                /\ ex_key' = None
                /\ ex_pc' = "half_hash"
           ELSE /\ ex_ret' = None
                /\ ex_key' = Some(config_key(config, Unwrap(git_half_hash)))
                /\ ex_pc' = "mkdir"
    /\ ex_todo' = <<>>
    /\ ex_copied' = <<>>
    /\ ex_runs' = ex_runs + 1
    /\ ex_fs0' = fs
    /\ UNCHANGED <<fs, unpack_vars>>
    /\ UNCHANGED <<key_vars, url_vars, gate_vars, download_vars>>

\* prepare_export_directory: fs::create_dir_all(&binaries)?
ExportMkdir(inject) ==
    /\ ex_pc = "mkdir" /\ ex_ret = None
    /\ \E fault \in Injected(inject) :
        LET made == IF fault THEN FsErr("PermissionDenied", fs)
                    ELSE create_dir_all(fs, ExportDir)
        IN  IF made.err # None
            THEN ExportEnds(IoErr(Unwrap(made.err)), made.fs)
            ELSE /\ fs' = made.fs
                 /\ ex_pc' = "tag_create"
                 /\ UNCHANGED ex_ret
    /\ UNCHANGED <<ex_args, ex_key, ex_todo, ex_copied, ex_runs, ex_fs0, unpack_vars>>
    /\ UNCHANGED <<key_vars, url_vars, gate_vars, download_vars>>

\* fs::File::create(binaries.join(name)).unwrap(): a failure panics.
ExportCreate(step, name, next, inject) ==
    /\ ex_pc = step /\ ex_ret = None
    /\ \E fault \in Injected(inject) :
        LET made == IF fault THEN FsErr("PermissionDenied", fs)
                    ELSE File_create(fs, join_path(ExportDir, name))
        IN  IF made.err # None
            THEN ExportEnds(Panic("called Result::unwrap() on an Err value"), made.fs)
            ELSE /\ fs' = made.fs
                 /\ ex_pc' = next
                 /\ UNCHANGED ex_ret
    /\ UNCHANGED <<ex_args, ex_key, ex_copied, ex_runs, ex_fs0, unpack_vars>>
    /\ UNCHANGED <<key_vars, url_vars, gate_vars, download_vars>>

\* file.write_all(bytes)?: a failure leaves the file as create made it.
ExportWrite(step, name, bytes, next, inject) ==
    /\ ex_pc = step /\ ex_ret = None
    /\ \E fault \in Injected(inject) :
        LET made == IF fault THEN FsErr("StorageFull", fs)
                    ELSE write_all(fs, join_path(ExportDir, name), bytes)
        IN  IF made.err # None
            THEN ExportEnds(IoErr(Unwrap(made.err)), made.fs)
            ELSE /\ fs' = made.fs
                 /\ ex_pc' = next
                 /\ UNCHANGED ex_ret
    /\ UNCHANGED <<ex_args, ex_key, ex_copied, ex_runs, ex_fs0, unpack_vars>>
    /\ UNCHANGED <<key_vars, url_vars, gate_vars, download_vars>>

ExportTagCreate(inject) ==
    ExportCreate("tag_create", "tag.txt", "tag_write", inject) /\ UNCHANGED ex_todo

ExportTagWrite(inject) ==
    ExportWrite("tag_write", "tag.txt", package_version, "key_create", inject)
        /\ UNCHANGED ex_todo

ExportKeyCreate(inject) ==
    ExportCreate("key_create", "key.txt", "key_write", inject) /\ UNCHANGED ex_todo

\* The last step of prepare_export_directory; export goes on with its first loop.
ExportKeyWrite(inject) ==
    /\ ExportWrite("key_write", "key.txt", Unwrap(ex_key), "sources", inject)
    /\ ex_todo' = IF ex_ret' = None THEN SourceCopies(ExportArgs) ELSE ex_todo

\* A loop that goes on with the next file after a copy failed (mutation of
\* ExportCopy).
ExportCopySkipping(step, next, next_todo, inject) ==
    /\ ex_pc = step /\ ex_ret = None
    /\ IF ex_todo = <<>>
       THEN /\ ex_pc' = next
            /\ ex_todo' = next_todo
            /\ UNCHANGED <<fs, ex_copied, ex_ret>>
       ELSE LET from == Head(ex_todo)[1]
                to == Head(ex_todo)[2]
            IN  \E fault \in Injected(inject) :
                 LET copied == IF fault THEN FsErr("PermissionDenied", fs)
                               ELSE fs_copy(fs, from, to)
                 IN  /\ fs' = copied.fs
                     /\ ex_todo' = Tail(ex_todo)
                     /\ ex_copied' = IF copied.err = None
                                     THEN Append(ex_copied, Head(ex_todo))
                                     ELSE ex_copied
                     /\ UNCHANGED <<ex_pc, ex_ret>>
    /\ UNCHANGED <<ex_args, ex_key, ex_runs, ex_fs0, unpack_vars>>
    /\ UNCHANGED <<key_vars, url_vars, gate_vars, download_vars>>

\* One turn of a loop of export, fs::copy(from, to)?, or the end of the loop,
\* after which the next loop starts.
ExportCopy(step, next, next_todo, inject) ==
    /\ ex_pc = step /\ ex_ret = None
    /\ IF ex_todo = <<>>
       THEN /\ ex_pc' = next
            /\ ex_todo' = next_todo
            /\ UNCHANGED <<fs, ex_copied, ex_ret>>
       ELSE LET from == Head(ex_todo)[1]
                to == Head(ex_todo)[2]
            IN  \E fault \in Injected(inject) :
                 LET copied == IF fault THEN FsErr("PermissionDenied", fs)
                               ELSE fs_copy(fs, from, to)
                 IN  IF copied.err # None
                     THEN /\ ExportEnds(IoErr(Unwrap(copied.err)), copied.fs)
                          /\ UNCHANGED <<ex_todo, ex_copied>>
                     ELSE /\ fs' = copied.fs
                          /\ ex_todo' = Tail(ex_todo)
                          /\ ex_copied' = Append(ex_copied, Head(ex_todo))
                          /\ UNCHANGED <<ex_pc, ex_ret>>
    /\ UNCHANGED <<ex_args, ex_key, ex_runs, ex_fs0, unpack_vars>>
    /\ UNCHANGED <<key_vars, url_vars, gate_vars, download_vars>>

\* for source_file in source_files { fs::copy(src, export_dir.join(dst))? }
ExportCopySource(inject) ==
    ExportCopy("sources", "ninja",
               LibraryCopies(ExportArgs, ExportArgs.config.ninja_built_libraries), inject)

\* for lib in &config.ninja_built_libraries { ... }
ExportCopyNinja(inject) ==
    ExportCopy("ninja", "other",
               LibraryCopies(ExportArgs, ExportArgs.config.other_built_libraries), inject)

\* for lib in &config.other_built_libraries { ... }
ExportCopyOther(inject) ==
    ExportCopy("other", "additional", AdditionalCopies(ExportArgs), inject)

\* for file in &config.additional_files { ... }
ExportCopyAdditional(inject) ==
    ExportCopy("additional", "return", <<>>, inject)

\* Ok(())
ExportReturn ==
    /\ ex_pc = "return" /\ ex_ret = None
    /\ ex_ret' = Some(IoOk)
    /\ ex_pc' = "done"
    /\ UNCHANGED <<fs, ex_args, ex_key, ex_todo, ex_copied, ex_runs, ex_fs0, unpack_vars>>
    /\ UNCHANGED <<key_vars, url_vars, gate_vars, download_vars>>

\* The build script has not exported yet, or its last export succeeded and it
\* may export once more.
MayExport == ex_runs < MaxExports /\ (ex_pc = "idle" \/ ex_ret = Some(IoOk))

\* The build script asks the gate before it exports.
GateCheck == ex_pc = "idle" /\ ShouldExport

\* The checkout changes between the gate and export, or between two exports.
CheckoutMoves == MayExport /\ RepositoryChange

\* A build exports, the first time or after an export that succeeded.
ExportCall == MayExport /\ ExportBegin(Configurations, SourceFileLists)

CacheOff == fs = <<>> /\ UnpackOff /\ ExportOff

InitUnpack ==
    /\ KeyOff /\ UrlInit /\ GateOff /\ DownloadOff /\ UnpackOff /\ ExportOff
    /\ fs \in OutputStates(OwnOutput["p1"])

\* One build process unpacks an archive into its output directory; any of its
\* file system calls may fail.
\* The archives the process is given, sound or not, and its output directory.
Archives == ArchivesOf("A")
Outputs == {OwnOutput["p1"]}

NextUnpack ==
    \/ UnpackBegin("p1", Archives, Outputs)
    \/ UnpackOpen("p1", TRUE)
    \/ UnpackExtract("p1", TRUE)
    \/ UnpackEnumerate("p1", TRUE)
    \/ UnpackRename("p1", TRUE)
    \/ UnpackReturn("p1")

SpecUnpack == InitUnpack /\ [][NextUnpack]_vars

Maker == ("p1" :> "A") @@ ("p2" :> "B")

InitUnpack2 ==
    /\ KeyOff /\ UrlInit /\ GateOff /\ DownloadOff /\ UnpackOff /\ ExportOff
    /\ fs \in {<<>>, (SharedOutput :> DirNode)}

\* Two build processes unpack at the same time, each a sound archive, into its
\* own output directory or into the one both share; no call fails for a reason
\* outside the file system, so each unpack succeeds when it runs alone.
SoundArchives == [p \in Procs |-> SoundArchivesOf(Maker[p])]
OutputChoices == [p \in Procs |-> {SharedOutput, OwnOutput[p]}]

NextUnpack2 ==
    \/ \E p \in Procs : UnpackBegin(p, SoundArchives[p], OutputChoices[p])
    \/ \E p \in Procs : UnpackOpen(p, FALSE)
    \/ \E p \in Procs : UnpackExtract(p, FALSE)
    \/ \E p \in Procs : UnpackEnumerate(p, FALSE)
    \/ \E p \in Procs : UnpackRename(p, FALSE)
    \/ \E p \in Procs : UnpackReturn(p)

SpecUnpack2 == InitUnpack2 /\ [][NextUnpack2]_vars

InitExport ==
    /\ KeyOff /\ UrlInit /\ DownloadOff /\ UnpackOff /\ ExportOff
    /\ repo_revision \in Revisions
    /\ env_staging_directory = Some("/ci/staging")
    /\ gate_seen = None
    /\ gate_ret = None
    /\ fs \in ExportFileSystems

\* The build script asks the gate and exports, up to MaxExports times into the
\* same staging directory; any file system call of export may fail.
NextExport ==
    \/ GateCheck
    \/ CheckoutMoves
    \/ ExportCall
    \/ ExportMkdir(TRUE)
    \/ ExportTagCreate(TRUE)
    \/ ExportTagWrite(TRUE)
    \/ ExportKeyCreate(TRUE)
    \/ ExportKeyWrite(TRUE)
    \/ ExportCopySource(TRUE)
    \/ ExportCopyNinja(TRUE)
    \/ ExportCopyOther(TRUE)
    \/ ExportCopyAdditional(TRUE)
    \/ ExportReturn

SpecExport == InitExport /\ [][NextExport]_vars

\* tar of a directory, as the CI tooling makes the archive from the export
\* directory: the directory is the root entry, then what it holds, parents
\* before children.
RECURSIVE PackEntries(_, _, _)
PackEntries(f, dir, paths) ==
    IF paths = {} THEN <<>>
    ELSE LET q == CHOOSE x \in paths : \A r \in paths : Len(x) <= Len(r)
             at == <<file_name(dir)>> \o SubSeq(q, Len(dir) + 1, Len(q))
         IN  <<IF f[q].kind = "dir" THEN TarDir(at) ELSE TarFile(at, f[q].data)>>
                 \o PackEntries(f, dir, paths \ {q})

pack(f, dir) ==
    Archive(<<TarDir(<<file_name(dir)>>)>>
                \o PackEntries(f, dir, {q \in DOMAIN f : IsUnder(q, dir)}), 0)

\* The directory D a later build unpacks into.
DownloadOutput == <<"D">>

RoundTripFileSystems ==
    {f @@ (DownloadOutput :> DirNode) :
        f \in {g \in ExportFileSystems :
                  /\ ~IsFile(g, <<"staging">>)
                  /\ ~IsDir(g, <<"staging", "skia-binaries", "tag.txt">>)
                  /\ IsFile(g, <<"build", "icudtl.dat">>)}}

InitRoundTrip ==
    /\ KeyOff /\ UrlInit /\ DownloadOff /\ UnpackOff /\ ExportOff
    /\ repo_revision \in {Some(Hash1), Some(Hash2)}
    /\ env_staging_directory = Some("/ci/staging")
    /\ gate_seen = None
    /\ gate_ret = None
    /\ fs \in RoundTripFileSystems

\* The exports whose directory is archived: one library, one additional file,
\* with or without a source file.
RoundTripConfigurations == {Configuration(FALSE, <<"skia">>, <<>>, <<"icudtl.dat">>)}
RoundTripSourceFileLists == {<<>>, << <<(<<"src", "bindings.rs">>), "bindings.rs">> >>}

\* An export before any archive is made.
ExportFirst ==
    /\ up_pc["p1"] = "idle"
    /\ MayExport
    /\ ExportBegin(RoundTripConfigurations, RoundTripSourceFileLists)

\* The export directory of a finished export is archived, and a build unpacks
\* the archive into D.
PackAndUnpack ==
    /\ ex_pc = "done" /\ ex_ret = Some(IoOk)
    /\ UnpackBegin("p1", {pack(fs, ExportDir)}, {DownloadOutput})

NextRoundTrip ==
    \/ ExportFirst
    \/ ExportMkdir(FALSE)
    \/ ExportTagCreate(FALSE)
    \/ ExportTagWrite(FALSE)
    \/ ExportKeyCreate(FALSE)
    \/ ExportKeyWrite(FALSE)
    \/ ExportCopySource(FALSE)
    \/ ExportCopyNinja(FALSE)
    \/ ExportCopyOther(FALSE)
    \/ ExportCopyAdditional(FALSE)
    \/ ExportReturn
    \/ PackAndUnpack
    \/ UnpackOpen("p1", FALSE)
    \/ UnpackExtract("p1", FALSE)
    \/ UnpackEnumerate("p1", FALSE)
    \/ UnpackRename("p1", FALSE)
    \/ UnpackReturn("p1")

SpecRoundTrip == InitRoundTrip /\ [][NextRoundTrip]_vars

InitKey == KeyInit /\ UrlInit /\ GateOff /\ DownloadOff /\ CacheOff
NextKey == KeyCall \/ KeyReturn

\* The build script derives keys.
SpecKey == InitKey /\ [][NextKey]_vars

InitUrl == KeyOff /\ UrlInit /\ GateOff /\ DownloadOff /\ CacheOff
NextUrl == UrlCall \/ UrlReturn

\* The build script builds download urls.
SpecUrl == InitUrl /\ [][NextUrl]_vars

InitGate == KeyOff /\ UrlInit /\ GateInit /\ DownloadOff /\ CacheOff
NextGate == ShouldExport \/ RepositoryChange \/ StagingChange

\* Builds ask the export gate, in checkouts and environments that change in between.
SpecGate == InitGate /\ [][NextGate]_vars

InitDownload == KeyOff /\ UrlInit /\ GateOff /\ DownloadInit /\ CacheOff
NextDownload == DownloadBegin \/ DownloadCall \/ DownloadMatch

\* The build script downloads archives.
SpecDownload == InitDownload /\ [][NextDownload]_vars

(***************************************************************************)
(* Properties of key                                                       *)
(***************************************************************************)

KeyCalled == key_args # None
KeyArgs == Unwrap(key_args)
KeyRet == Unwrap(key_ret)

Range(v) == {v[i] : i \in DOMAIN v}

DashStatic == <<"-", "s", "t", "a", "t", "i", "c">>
DashDebug == <<"-", "d", "e", "b", "u", "g">>

\* C1: key is deterministic in its logical inputs: with the revision, the target,
\* the static-CRT flag and the debug flag of the call, every feature list that is
\* equal as a set to the list of the call (any order, any repeats) gives the
\* byte-identical string the call returned.
KeyDeterministic ==
    KeyCalled =>
        \A f2 \in FeatureLists :
            Range(f2) = Range(KeyArgs.features) =>
                key(KeyArgs.repository_short_hash, f2, KeyArgs.skia_debug) = KeyRet

\* A call with the features in reversed order and one repeated returned the
\* key of the scenario.
KeyDeterministicWitness ==
    /\ KeyCalled
    /\ KeyArgs.features = <<FeatVulkan, FeatGl, FeatVulkan>>
    /\ KeyArgs.repository_short_hash = Hash1
    /\ cargo_target = TargetMsvc
    /\ cargo_crt_static
    /\ ~KeyArgs.skia_debug
    /\ KeyRet = key(Hash1, <<FeatGl, FeatVulkan>>, FALSE)

\* C2: the key identifies the build identity: every identity that differs from
\* the one of the call in revision, target triple, feature set, static-CRT flag
\* or debug flag has a different key.
KeyUnique ==
    KeyCalled =>
        \A h \in Hashes, t \in Targets, st \in BOOLEAN, f \in FeatureLists, d \in BOOLEAN :
            <<h, t, st, Range(f), d>>
                # <<KeyArgs.repository_short_hash, cargo_target, cargo_crt_static,
                    Range(KeyArgs.features), KeyArgs.skia_debug>>
            => key_of(h, t, st, f, d) # KeyRet

\* The strictly increasing sequence of the names in the set S.
SortedNames(S) ==
    CHOOSE v \in [1..Cardinality(S) -> S] :
        \A i \in 1..Len(v), j \in 1..Len(v) : i < j => StrLess(v[i], v[j])

\* Each name of v with a '-' in front of it, one after the other.
RECURSIVE Dashed(_)
Dashed(v) == IF v = <<>> THEN <<>> ELSE <<"-">> \o Head(v) \o Dashed(Tail(v))

\* The key as the grammar revision '-' target ['-' features] ['-static'] ['-debug'].
KeyGrammar(revision, target, features, crt_static, debug) ==
    revision \o <<"-">> \o target
        \o Dashed(SortedNames(Range(features)))
        \o (IF crt_static THEN DashStatic ELSE <<>>)
        \o (IF debug THEN DashDebug ELSE <<>>)

ScenarioKey == <<"a", "1", "b", "2", "c", "3", "d", "4", "-", "x", "8", "6", "_", "6", "4", "-", "p", "c", "-", "w", "i", "n", "d", "o", "w", "s", "-", "m", "s", "v", "c", "-", "g", "l", "-", "v", "u", "l", "k", "a", "n", "-", "s", "t", "a", "t", "i", "c">>

IsScenarioCall ==
    /\ KeyCalled
    /\ KeyArgs.repository_short_hash = Hash1
    /\ cargo_target = TargetMsvc
    /\ KeyArgs.features = <<FeatGl, FeatVulkan>>
    /\ cargo_crt_static
    /\ ~KeyArgs.skia_debug

\* C3: the key is the revision, the target triple, the features (sorted, without
\* repeats, each after a '-', none for an empty list), the token static when the
\* CRT is linked statically and the token debug for a debug build, in this order
\* and joined with '-'; the scenario gives exactly
\* a1b2c3d4-x86_64-pc-windows-msvc-gl-vulkan-static.
KeyLayout ==
    KeyCalled =>
        /\ KeyRet = KeyGrammar(KeyArgs.repository_short_hash, cargo_target,
                               KeyArgs.features, cargo_crt_static, KeyArgs.skia_debug)
        /\ IsScenarioCall => KeyRet = ScenarioKey

\* The scenario's call has returned.
KeyLayoutWitness == IsScenarioCall /\ KeyRet = ScenarioKey

\* C4: changing only the debug flag changes only the trailing -debug: the key
\* with debug on is the key with debug off followed by exactly -debug.
KeyDebugSuffix ==
    KeyCalled =>
        LET on == key(KeyArgs.repository_short_hash, KeyArgs.features, TRUE)
            off == key(KeyArgs.repository_short_hash, KeyArgs.features, FALSE)
        IN  /\ on = off \o DashDebug
            /\ KeyRet = IF KeyArgs.skia_debug THEN on ELSE off

\* A debug build with static CRT and features has its key.
KeyDebugSuffixWitness ==
    /\ KeyCalled
    /\ KeyArgs.skia_debug
    /\ cargo_crt_static
    /\ KeyArgs.features = <<FeatVulkan, FeatGl>>
    /\ SubSeq(KeyRet, Len(KeyRet) - 12, Len(KeyRet)) = DashStatic \o DashDebug

GroupingChars == {"<", ">", "[", "]", "{", "}", "(", ")"}

\* The characters of the model that are in [A-Za-z0-9._-].
SafeChars == Chars \ (GroupingChars \cup {"+", "/", ":"})

FeatureChars(features) == UNION {CharsOf(features[i]) : i \in DOMAIN features}

UrlCalled == url_args # None
UrlArgs == Unwrap(url_args)
UrlRet == Unwrap(url_ret)

\* s read once from left to right: each {tag} of s becomes the tag, each {key} of
\* s becomes the key, every other character is copied; what is put in is not
\* read again.
RECURSIVE Substituted(_, _, _)
Substituted(s, tag, key_value) ==
    IF s = <<>> THEN <<>>
    ELSE IF StartsWith(s, TAG_PLACEHOLDER)
         THEN tag \o Substituted(SubSeq(s, Len(TAG_PLACEHOLDER) + 1, Len(s)), tag, key_value)
    ELSE IF StartsWith(s, KEY_PLACEHOLDER)
         THEN key_value
                  \o Substituted(SubSeq(s, Len(KEY_PLACEHOLDER) + 1, Len(s)), tag, key_value)
    ELSE <<Head(s)>> \o Substituted(Tail(s), tag, key_value)

Contains(s, p) == \E i \in 0..(Len(s) - Len(p)) : SubSeq(s, i + 1, i + Len(p)) = p

NoPlaceholder(s) == ~Contains(s, TAG_PLACEHOLDER) /\ ~Contains(s, KEY_PLACEHOLDER)

IsScenarioUrlCall ==
    /\ UrlCalled
    /\ UrlArgs.url_template = ScenarioTemplate
    /\ UrlArgs.tag = ScenarioTag
    /\ UrlArgs.key = ScenarioUrlKey

\* C6 as stated: the url is the template with every {tag} of the template
\* replaced by the tag and every {key} of the template by the key, and nothing
\* else changed, for every template, tag and key.
UrlSubstitutesTemplate ==
    UrlCalled => UrlRet = Substituted(UrlArgs.url_template, UrlArgs.tag, UrlArgs.key)

\* C6 amended: the url is the template with its placeholders replaced and nothing
\* else changed whenever the tag is not empty and has no character of {key}; a
\* template with no placeholder is returned unchanged for every tag and key; the
\* scenario gives https://example/0.9.1/abc-static.tar.gz.
UrlSubstitutesForPlainTag ==
    UrlCalled =>
        /\ (UrlArgs.tag # <<>> /\ CharsOf(UrlArgs.tag) \cap CharsOf(KEY_PLACEHOLDER) = {})
               => UrlRet = Substituted(UrlArgs.url_template, UrlArgs.tag, UrlArgs.key)
        /\ NoPlaceholder(UrlArgs.url_template) => UrlRet = UrlArgs.url_template
        /\ IsScenarioUrlCall => UrlRet = ScenarioUrl

\* The scenario's url has been built.
UrlSubstitutesForPlainTagWitness == IsScenarioUrlCall /\ UrlRet = ScenarioUrl

(***************************************************************************)
(* Properties of should_export                                             *)
(***************************************************************************)

GateCalled == gate_seen # None
GateSeen == Unwrap(gate_seen)
GateRet == Unwrap(gate_ret)

\* C7: should_export returns the staging directory only when a short revision
\* hash is resolvable and the staging directory is configured; it returns nothing
\* when the staging directory is unset, whatever the revision, and nothing when
\* the revision is unresolvable, whatever the staging directory.
GateNeedsBoth ==
    GateCalled =>
        /\ (GateSeen.revision # None /\ GateSeen.staging # None) => GateRet = GateSeen.staging
        /\ GateSeen.staging = None => GateRet = None
        /\ GateSeen.revision = None => GateRet = None

\* A call outside a checkout with the staging directory set returned nothing,
\* and the checkout has since become resolvable.
GateNeedsBothWitness ==
    /\ GateCalled
    /\ GateSeen.revision = None
    /\ GateSeen.staging = Some("/ci/staging")
    /\ GateRet = None
    /\ repo_revision # None

(***************************************************************************)
(* Properties of download                                                  *)
(***************************************************************************)

Requested == dl_pc \in {"match", "done"}

IsText(value) == value # None /\ Unwrap(value).unicode
ParsesAsProxy(value) == IsText(value) /\ Unwrap(value).text \in ValidProxyTexts
IsMalformed(value) == IsText(value) /\ Unwrap(value).text \notin ValidProxyTexts

\* The variable download goes by: https_proxy when it holds text, else HTTPS_PROXY.
SelectedVariable == IF IsText(env_https_proxy) THEN env_https_proxy ELSE env_HTTPS_PROXY

\* C8 as stated: when https_proxy or HTTPS_PROXY holds a value that parses as a
\* proxy, the GET goes through such a proxy, for every combination of the two
\* variables.
ProxyUsedWhenEitherValid ==
    (Requested /\ (ParsesAsProxy(env_https_proxy) \/ ParsesAsProxy(env_HTTPS_PROXY))) =>
        \E value \in {env_https_proxy, env_HTTPS_PROXY} :
            /\ ParsesAsProxy(value)
            /\ requests[1].via = Some(Unwrap(value).text)

\* C8 amended: the variable that decides is https_proxy when it is set to text
\* and HTTPS_PROXY otherwise; when the deciding variable parses as a proxy the GET
\* goes through that proxy; when https_proxy is set to text that does not parse,
\* HTTPS_PROXY is not looked at and the GET is direct.
ProxyUsedWhenSelectedValid ==
    Requested =>
        /\ ParsesAsProxy(SelectedVariable)
               => requests[1].via = Some(Unwrap(SelectedVariable).text)
        /\ IsMalformed(env_https_proxy) => requests[1].via = None

\* Both variables hold different proxies and the GET went through https_proxy's.
ProxyUsedWhenSelectedValidWitness ==
    /\ Requested
    /\ env_https_proxy = Some(EnvText("socks5://10.0.0.7:1080"))
    /\ env_HTTPS_PROXY = Some(EnvText("http://proxy.corp:8080"))
    /\ requests[1].via = Some("socks5://10.0.0.7:1080")

\* C9: when the selected proxy variable is set and does not parse as a proxy,
\* the request is made over a direct connection, and download returns an error
\* only if the response is one or the body cannot be read.
MalformedProxyFallsBack ==
    (Requested /\ IsMalformed(SelectedVariable)) =>
        /\ requests[1].via = None
        /\ dl_pc = "done" =>
               (Unwrap(dl_ret).ok <=> (Unwrap(dl_resp).ok /\ Unwrap(dl_resp).read = None))

\* A download with a malformed HTTPS_PROXY returned the body.
MalformedProxyFallsBackWitness ==
    /\ dl_pc = "done"
    /\ env_https_proxy = None
    /\ env_HTTPS_PROXY = Some(EnvText("ftp://proxy.corp"))
    /\ requests[1].via = None
    /\ Unwrap(dl_ret) = Ok("tar-gz-bytes-1")

UnpackOk(p) == up_ret[p] = Some(IoOk)
ArchiveRoot(a) == IF a.entries = <<>> THEN "" ELSE a.entries[1].path[1]
EntriesOf(a) == {a.entries[i] : i \in DOMAIN a.entries}

\* Every entry of p's archive below its root is in p's output directory with
\* the root taken off its path, a file with the bytes of the archive.
Flattened(p) ==
    \A e \in EntriesOf(up_archive[p]) :
        Len(e.path) > 1 =>
            LET at == up_out[p] \o Tail(e.path)
            IN  /\ Exists(fs, at)
                /\ fs[at].kind = e.kind
                /\ e.kind = "file" => fs[at].data = e.data

\* C11: after unpack returns Ok for an archive whose root is the directory
\* skia-binaries, every child of that directory is a direct child of the output
\* directory under its base name, what a child directory holds is still inside
\* it (one level is flattened, not two), and skia-binaries inside the output
\* directory has no children left.
UnpackFlattens ==
    (UnpackOk("p1") /\ ArchiveRoot(up_archive["p1"]) = ARCHIVE_NAME) =>
        /\ Flattened("p1")
        /\ IsDir(fs, join_path(up_out["p1"], ARCHIVE_NAME))
        /\ Children(fs, join_path(up_out["p1"], ARCHIVE_NAME)) = {}

\* An archive with a.lib, tag.txt and the directory include was unpacked over
\* an a.lib of an earlier build.
UnpackFlattensWitness ==
    /\ UnpackOk("p1")
    /\ ArchiveRoot(up_archive["p1"]) = ARCHIVE_NAME
    /\ IsFile(fs, <<"out1", "a.lib">>)
    /\ fs[<<"out1", "a.lib">>].data = <<"A", "a.lib">>
    /\ IsFile(fs, <<"out1", "tag.txt">>)
    /\ IsFile(fs, <<"out1", "include", "x.h">>)
    /\ ~Exists(fs, <<"out1", "x.h">>)
    /\ Children(fs, <<"out1", ARCHIVE_NAME>>) = {}

\* C12: an I/O failure in unpack, at decompress, extract, enumerate (opening
\* the directory or reading one of its entries) or move, makes unpack return an
\* I/O error value, never panic, and unpack has stopped with it.
UnpackFailureIsErr ==
    \A p \in Procs :
        up_ret[p] # None =>
            /\ Unwrap(up_ret[p]).how = "return"
            /\ up_pc[p] = "done"

\* C15: an unpack whose output directory no other unpack uses is not affected
\* by the other: it returns Ok, every file of its archive is in its output
\* directory with the bytes of its archive, and its skia-binaries directory is
\* empty. (Two unpacks into one directory can fail: the witness.)
UnpackIsolated ==
    \A p \in Procs :
        (up_pc[p] = "done" /\ \A q \in Procs \ {p} : up_out[q] # up_out[p]) =>
            /\ UnpackOk(p)
            /\ Flattened(p)
            /\ Children(fs, join_path(up_out[p], ARCHIVE_NAME)) = {}

\* Both processes unpacked into the shared directory, and p1 failed on a rename
\* of a path the other had moved.
UnpackIsolatedWitness ==
    /\ up_out["p1"] = SharedOutput
    /\ up_out["p2"] = SharedOutput
    /\ up_ret["p1"] = Some(IoErr("NotFound"))
    /\ UnpackOk("p2")

(***************************************************************************)
(* Properties of export and prepare_export_directory                       *)
(***************************************************************************)

ExportOk == ex_pc = "done" /\ ex_ret = Some(IoOk)
TagFile == join_path(ExportDir, "tag.txt")
KeyFile == join_path(ExportDir, "key.txt")

\* prepare_export_directory has returned Ok in the current export.
Prepared == ex_pc \in {"sources", "ninja", "other", "additional", "return", "done"}

\* The copies of the current export that wrote to path.
CopiesTo(path) == {i \in DOMAIN ex_copied : ex_copied[i][2] = path}

\* path holds exactly bytes.
Holds(path, bytes) == IsFile(fs, path) /\ fs[path].data = bytes

\* The statement of C13 as the spec has it: after a successful export tag.txt
\* holds exactly the package version and key.txt exactly the key of that
\* export. It fails when a copied file is named like a metadata file.
ExportMetadataExact ==
    ExportOk => Holds(TagFile, package_version) /\ Holds(KeyFile, Unwrap(ex_key))

\* C13: whether or not skia-binaries and its metadata files existed before,
\* once prepare_export_directory has returned Ok, and after export returned Ok,
\* in any sequence of exports into the same root, tag.txt holds exactly the
\* package version string and key.txt exactly the key of the most recent
\* export (old content is replaced, not appended to), unless a copy of that
\* export had the metadata file as its destination: then it holds the bytes of
\* the file copied last.
ExportMetadataExactUnlessCopiedOver ==
    (Prepared /\ (ex_ret = None \/ ExportOk)) =>
        \A m \in {<<TagFile, package_version>>, <<KeyFile, Unwrap(ex_key)>>} :
            IF CopiesTo(m[1]) = {}
            THEN Holds(m[1], m[2])
            ELSE LET last == CHOOSE i \in CopiesTo(m[1]) : \A j \in CopiesTo(m[1]) : j <= i
                 IN  Holds(m[1], fs[ex_copied[last][1]].data)

\* A second export with another key succeeded into the directory the first
\* one filled, and no copy touched the metadata files.
ExportMetadataExactUnlessCopiedOverWitness ==
    /\ ExportOk
    /\ ex_runs = 2
    /\ CopiesTo(TagFile) = {} /\ CopiesTo(KeyFile) = {}
    /\ IsFile(ex_fs0, KeyFile)
    /\ ex_fs0[KeyFile].data # Unwrap(ex_key)
    /\ ex_fs0[KeyFile].data # <<"o", "l", "d">>
    /\ Holds(KeyFile, Unwrap(ex_key))
    /\ Holds(TagFile, package_version)

\* C14: an I/O failure while the export directory is prepared (creating the
\* directory, creating tag.txt or key.txt, or writing them) ends export with an
\* I/O error value, not with a panic.
ExportPrepareFailureIsErr ==
    (ex_ret # None /\ ex_pc \in {"mkdir", "tag_create", "tag_write", "key_create", "key_write"})
        => Unwrap(ex_ret).how = "return"

\* The copies export is to make, in the order the claim gives: source files,
\* ninja-built libraries, other built libraries, additional files.
ExpectedCopies ==
    SourceCopies(ExportArgs)
        \o LibraryCopies(ExportArgs, ExportArgs.config.ninja_built_libraries)
        \o LibraryCopies(ExportArgs, ExportArgs.config.other_built_libraries)
        \o AdditionalCopies(ExportArgs)

IsPrefix(s, t) == Len(s) <= Len(t) /\ SubSeq(t, 1, Len(s)) = s

\* export ended with an I/O error in one of its copy loops.
CopyFailed ==
    /\ ex_ret # None /\ Unwrap(ex_ret).how = "return" /\ ~Unwrap(ex_ret).ok
    /\ ex_pc \in {"sources", "ninja", "other", "additional"}

\* C16: export copies in the fixed order source files, ninja-built libraries,
\* other built libraries, additional files, after tag.txt and key.txt were
\* written; at the first copy that fails export has ended with an I/O error,
\* the copies made are the ones before the failing one and their files are in
\* the export directory, as are the metadata files, and no destination after
\* the failing one was written; export returns Ok only with every copy made.
ExportOrdered ==
    ex_args # None =>
        /\ IsPrefix(ex_copied, ExpectedCopies)
        /\ ex_copied # <<>> => Prepared /\ IsFile(fs, TagFile) /\ IsFile(fs, KeyFile)
        /\ ExportOk => ex_copied = ExpectedCopies
        /\ CopyFailed =>
            /\ Len(ex_copied) < Len(ExpectedCopies)
            /\ IsFile(fs, TagFile) /\ IsFile(fs, KeyFile)
            /\ \A i \in 1..Len(ex_copied) :
                   Holds(ex_copied[i][2], fs[ex_copied[i][1]].data)
            /\ \A i \in (Len(ex_copied) + 1)..Len(ExpectedCopies) :
                   LET to == ExpectedCopies[i][2]
                   IN  to \notin {TagFile, KeyFile} =>
                           /\ Exists(fs, to) <=> Exists(ex_fs0, to)
                           /\ Exists(fs, to) => fs[to] = ex_fs0[to]

\* The additional file is missing in the build directory: export has copied
\* the source file and the two libraries before it, and ended with an error.
ExportOrderedWitness ==
    /\ CopyFailed
    /\ ex_pc = "additional"
    /\ Unwrap(ex_ret) = IoErr("NotFound")
    /\ Len(ex_copied) = 3
    /\ Holds(<<"staging", "skia-binaries", "skia.lib">>, <<"build", "skia.lib">>)
    /\ Holds(<<"staging", "skia-binaries", "bindings.lib">>, <<"build", "bindings.lib">>)
    /\ Holds(TagFile, package_version)
    /\ ~Exists(fs, <<"staging", "skia-binaries", "icudtl.dat">>)

\* C17: the directory export fills is named ARCHIVE_NAME, and when the archive
\* made of it is unpacked into the empty directory D, unpack returns Ok and
\* every file of the export directory, tag.txt and key.txt and each copied file
\* among them, is a direct child of D with the exported bytes.
PackUnpackSymmetric ==
    /\ ex_args # None => file_name(ExportDir) = ARCHIVE_NAME
    /\ up_pc["p1"] = "done" =>
        /\ UnpackOk("p1")
        /\ \A q \in Children(fs, ExportDir) :
               Holds(join_path(DownloadOutput, file_name(q)), fs[q].data)
        /\ Holds(join_path(DownloadOutput, "tag.txt"), package_version)
        /\ Holds(join_path(DownloadOutput, "key.txt"), Unwrap(ex_key))
        /\ \A i \in DOMAIN ExpectedCopies :
               Holds(join_path(DownloadOutput, file_name(ExpectedCopies[i][2])),
                     fs[ExpectedCopies[i][1]].data)

\* A second export was archived and unpacked: D holds its key, the library,
\* the source file and the additional file.
PackUnpackSymmetricWitness ==
    /\ UnpackOk("p1")
    /\ ex_runs = 2
    /\ Holds(<<"D", "key.txt">>, Unwrap(ex_key))
    /\ Holds(<<"D", "skia.lib">>, <<"build", "skia.lib">>)
    /\ Holds(<<"D", "bindings.rs">>, <<"src", "bindings.rs">>)
    /\ Holds(<<"D", "icudtl.dat">>, <<"build", "icudtl.dat">>)
    /\ Children(fs, <<"D", ARCHIVE_NAME>>) = {}

NoRevisionPanic == Panic("failed to retrieve the git hash")

\* C18: when export is called and the revision cannot be resolved, the call
\* stops at once and leaves the file system as it was: nothing is created,
\* written or copied by it, then or later.
ExportNeedsRevision ==
    /\ [][(ex_runs' = ex_runs + 1 /\ git_half_hash = None) =>
             (ex_ret' = Some(NoRevisionPanic) /\ fs' = fs)]_vars
    /\ []((ex_runs > 0 /\ ex_key = None) =>
             (ex_ret = Some(NoRevisionPanic) /\ fs = ex_fs0 /\ ex_copied = <<>>))

\* The gate gave the staging directory, the checkout stopped being resolvable,
\* and export was called: it stopped and the staging directory does not exist.
ExportNeedsRevisionWitness ==
    /\ gate_ret = Some(Some("/ci/staging"))
    /\ repo_revision = None
    /\ ex_ret = Some(NoRevisionPanic)
    /\ ex_runs = 1
    /\ fs = ex_fs0
    /\ ~Exists(fs, <<"staging">>)

====
